---- MODULE Spec2Model ----
(***************************************************************************)
(* A model of swagger-mixin: mixer.Mixin, mixer.FixEmptyResponseDescriptions, *)
(* mixer.MixinFiles (src/mixer/mixer.go) and the command's exit status      *)
(* (src/main.go).                                                           *)
(*                                                                          *)
(* Go values are modelled as follows.                                       *)
(*   - a pointer is <<>> (nil) or <<x>> (a pointer to x);                   *)
(*   - a map is <<>> (the nil map: reads as empty, a write panics) or <<f>> *)
(*     with f a function from its keys;                                     *)
(*   - a string that takes part in concatenation (an operationId) is the    *)
(*     sequence of its chunks, taken from the prefix-free set {"getA",      *)
(*     "getB", "Mixin", "0".."9"}: two such strings are equal iff their     *)
(*     chunk sequences are; the empty string is <<>>;                       *)
(*   - an *Operation held by a PathItem is identified by the method field   *)
(*     that holds it; a PathItem copied from a mixin into the primary       *)
(*     shares its Operations with the mixin, so a write through the pointer *)
(*     is a write to both documents.                                        *)
(***************************************************************************)
EXTENDS Integers, Sequences, FiniteSets, TLC

\* ------------------------------------------------------------ bounds
\* The number of mixin documents handed to Mixin.
MaxMixins == 2

\* ------------------------------------------------------------ Go values
NilPtr == <<>>
PtrTo(x) == <<x>>
NilMap == <<>>
MapOf(f) == <<f>>
EmptyFn == [k \in {} |-> 0]

\* the keys a range over the map visits (none for the nil map)
Keys(m) == IF m = NilMap THEN {} ELSE DOMAIN m[1]
\* the "comma ok" read  _, exists := m[k]
Exists(m, k) == k \in Keys(m)
Lookup(m, k) == m[1][k]
\* m[k] = v on a map that is not nil
Store(m, k, v) == MapOf([x \in DOMAIN m[1] \cup {k} |-> IF x = k THEN v ELSE m[1][x]])

\* strconv of a non-negative int, as a sequence of digit chunks
Digit(d) == <<"0", "1", "2", "3", "4", "5", "6", "7", "8", "9">>[d + 1]
RECURSIVE Decimal(_)
Decimal(n) == IF n < 10 THEN <<Digit(n)>> ELSE Decimal(n \div 10) \o <<Digit(n % 10)>>

\* a variant of SprintfMixin that numbers the mixins from one
SprintfMixinOneBased(id, i) == id \o <<"Mixin">> \o Decimal(i + 1)

\* fmt.Sprintf("%v%v%v", piop.ID, "Mixin", i)
SprintfMixin(id, i) == id \o <<"Mixin">> \o Decimal(i)

\* ------------------------------------------------------------ documents
\* The seven operation fields of spec.PathItem.
Methods == {"Get", "Put", "Post", "Delete", "Options", "Head", "Patch"}

appendOp(ops, p, m) == IF p[m] = NilPtr THEN ops ELSE Append(ops, m)

pathItemOps(p) ==
    appendOp(appendOp(appendOp(appendOp(appendOp(appendOp(<<>>,
        p, "Get"), p, "Put"), p, "Post"), p, "Delete"), p, "Head"), p, "Patch")

RECURSIVE SeqIds(_, _)
SeqIds(p, ops) ==
    IF ops = <<>> THEN {} ELSE {p[Head(ops)][1].ID} \cup SeqIds(p, Tail(ops))

\* getOpIds, for a document whose Paths pointer is not nil
getOpIds(s) ==
    UNION { SeqIds(Lookup(s.Paths[1].Paths, k), pathItemOps(Lookup(s.Paths[1].Paths, k)))
            : k \in Keys(s.Paths[1].Paths) }

\* ------------------------------------------------------------ state
VARIABLES
    pc,         \* the statement about to run
    caller,     \* who called the function running: "none", "twice" or "MixinFiles"
    primary,    \* *spec.Swagger: Mixin's primary, FixEmptyResponseDescriptions' s
    mixins,     \* []*spec.Swagger: the mixin documents (shared with the caller)
    opIds,      \* Mixin's registry of operation ids seen
    skipped,    \* Mixin's count of skipped entries
    i,          \* Mixin's index of the mixin being merged
    todo,       \* the keys the running range loop has not visited yet
    primaryIn,  \* the primary as it was when Mixin (or the first repair) was called
    mixinsIn,   \* the mixins as they were when Mixin was called
    once,       \* the document after the first FixEmptyResponseDescriptions pass
    files,      \* MixinFiles: what the loader yields for each file name
    ret,        \* MixinFiles' return value [collisions, err]
    sink,       \* MixinFiles: what reached the io.Writer
    expected,   \* main: opts.ExpectedCollisionCount
    exit        \* main: the exit status the calling shell observes, -1 while running

vars == <<pc, caller, primary, mixins, opIds, skipped, i, todo, primaryIn, mixinsIn,
          once, files, ret, sink, expected, exit>>

\* ------------------------------------------------------------ Mixin
\* The locals of Mixin that a loop body reads and writes.
Frame == [primary |-> primary, mixins |-> mixins, opIds |-> opIds,
          skipped |-> skipped, panic |-> FALSE]

\* a variant of DefinitionsEntry that lets the mixin's entry replace the primary's
DefinitionsEntryOverwrites(f, n, k) ==
    IF f.primary.Definitions = NilMap
    THEN [f EXCEPT !.panic = TRUE]
    ELSE [f EXCEPT !.skipped = IF Exists(f.primary.Definitions, k) THEN @ + 1 ELSE @,
                   !.primary.Definitions =
                       Store(@, k, Lookup(f.mixins[n + 1].Definitions, k))]

\* lines 52-60: the body of the definitions loop for mixin n (zero-based), key k
DefinitionsEntry(f, n, k) ==
    IF Exists(f.primary.Definitions, k)
    THEN [f EXCEPT !.skipped = @ + 1]
    ELSE IF f.primary.Definitions = NilMap
    THEN [f EXCEPT !.panic = TRUE]
    ELSE [f EXCEPT !.primary.Definitions =
                       Store(@, k, Lookup(f.mixins[n + 1].Definitions, k))]

\* a variant of RenameOps that does not enter the ids it meets in the registry
RECURSIVE RenameOpsUnregistered(_, _, _, _)
RenameOpsUnregistered(v, piops, ids, n) ==
    IF piops = <<>> THEN [item |-> v, opIds |-> ids]
    ELSE LET m == Head(piops)
             id == v[m][1].ID
             newId == IF id \in ids THEN SprintfMixin(id, n) ELSE id
         IN RenameOpsUnregistered([v EXCEPT ![m] = PtrTo([@[1] EXCEPT !.ID = newId])],
                                  Tail(piops), ids, n)

\* lines 75-80: the loop over piops; the write piop.ID = ... goes through the
\* pointer, so it changes the Operation the path item v points to
RECURSIVE RenameOps(_, _, _, _)
RenameOps(v, piops, ids, n) ==
    IF piops = <<>> THEN [item |-> v, opIds |-> ids]
    ELSE LET m == Head(piops)
             id == v[m][1].ID
             newId == IF id \in ids THEN SprintfMixin(id, n) ELSE id
         IN RenameOps([v EXCEPT ![m] = PtrTo([@[1] EXCEPT !.ID = newId])],
                      Tail(piops), ids \cup {newId}, n)

\* lines 61-82: the body of the paths loop for mixin n, key k. The Operations
\* renamed are the mixin's own (v copies the PathItem, not what it points to).
PathsEntry(f, n, k) ==
    IF Exists(f.primary.Paths[1].Paths, k)
    THEN [f EXCEPT !.skipped = @ + 1]
    ELSE LET v == Lookup(f.mixins[n + 1].Paths[1].Paths, k)
             r == RenameOps(v, pathItemOps(v), f.opIds, n)
             g == [f EXCEPT !.opIds = r.opIds,
                            !.mixins[n + 1].Paths[1].Paths = Store(@, k, r.item)]
         IN IF f.primary.Paths[1].Paths = NilMap
            THEN [g EXCEPT !.panic = TRUE]
            ELSE [g EXCEPT !.primary.Paths[1].Paths = Store(@, k, r.item)]

\* a variant of ParametersEntry that skips a colliding entry without counting it
ParametersEntryUncounted(f, n, k) ==
    IF Exists(f.primary.Parameters, k)
    THEN f
    ELSE IF f.primary.Parameters = NilMap
    THEN [f EXCEPT !.panic = TRUE]
    ELSE [f EXCEPT !.primary.Parameters =
                       Store(@, k, Lookup(f.mixins[n + 1].Parameters, k))]

\* lines 83-93
ParametersEntry(f, n, k) ==
    IF Exists(f.primary.Parameters, k)
    THEN [f EXCEPT !.skipped = @ + 1]
    ELSE IF f.primary.Parameters = NilMap
    THEN [f EXCEPT !.panic = TRUE]
    ELSE [f EXCEPT !.primary.Parameters =
                       Store(@, k, Lookup(f.mixins[n + 1].Parameters, k))]

\* lines 94-104
ResponsesEntry(f, n, k) ==
    IF Exists(f.primary.Responses, k)
    THEN [f EXCEPT !.skipped = @ + 1]
    ELSE IF f.primary.Responses = NilMap
    THEN [f EXCEPT !.panic = TRUE]
    ELSE [f EXCEPT !.primary.Responses =
                       Store(@, k, Lookup(f.mixins[n + 1].Responses, k))]

\* What Mixin leaves alone in every step.
MixinFrame == UNCHANGED <<caller, primaryIn, mixinsIn, once, files, ret, sink, expected, exit>>

\* A loop body has run on key k: its writes, and a panic ends the program.
Ran(f, k) ==
    /\ primary' = f.primary
    /\ mixins' = f.mixins
    /\ opIds' = f.opIds
    /\ skipped' = f.skipped
    /\ pc' = IF f.panic THEN "panic" ELSE pc
    /\ todo' = todo \ {k}
    /\ UNCHANGED i
    /\ MixinFrame

\* lines 48-50: var skipped uint; opIds := getOpIds(primary). getOpIds reads
\* s.Paths.Paths: a nil primary.Paths is a nil pointer dereference.
MixinCall ==
    /\ pc = "Mixin"
    /\ skipped' = 0
    /\ i' = 0
    /\ IF primary.Paths = NilPtr
       THEN pc' = "panic" /\ UNCHANGED opIds
       ELSE pc' = "for" /\ opIds' = getOpIds(primary)
    /\ UNCHANGED <<primary, mixins, todo>>
    /\ MixinFrame

\* line 51: for i, m := range mixins; then line 52 starts ranging m.Definitions
ForMixins ==
    /\ pc = "for"
    /\ IF i < Len(mixins)
       THEN pc' = "definitions" /\ todo' = Keys(mixins[i + 1].Definitions)
       ELSE pc' = "return" /\ UNCHANGED todo
    /\ UNCHANGED <<primary, mixins, opIds, skipped, i>>
    /\ MixinFrame

\* lines 52-60, one entry of m.Definitions, in whatever order the map yields it
Definitions ==
    /\ pc = "definitions"
    /\ \E k \in todo : Ran(DefinitionsEntry(Frame, i, k), k)

\* line 61 starts ranging m.Paths.Paths: a nil m.Paths is a nil pointer dereference
DefinitionsDone ==
    /\ pc = "definitions"
    /\ todo = {}
    /\ IF mixins[i + 1].Paths = NilPtr
       THEN pc' = "panic" /\ UNCHANGED todo
       ELSE pc' = "paths" /\ todo' = Keys(mixins[i + 1].Paths[1].Paths)
    /\ UNCHANGED <<primary, mixins, opIds, skipped, i>>
    /\ MixinFrame

\* lines 61-82, one entry of m.Paths.Paths
Paths ==
    /\ pc = "paths"
    /\ \E k \in todo : Ran(PathsEntry(Frame, i, k), k)

PathsDone ==
    /\ pc = "paths"
    /\ todo = {}
    /\ pc' = "parameters"
    /\ todo' = Keys(mixins[i + 1].Parameters)
    /\ UNCHANGED <<primary, mixins, opIds, skipped, i>>
    /\ MixinFrame

\* lines 83-93, one entry of m.Parameters
Parameters ==
    /\ pc = "parameters"
    /\ \E k \in todo : Ran(ParametersEntry(Frame, i, k), k)

ParametersDone ==
    /\ pc = "parameters"
    /\ todo = {}
    /\ pc' = "responses"
    /\ todo' = Keys(mixins[i + 1].Responses)
    /\ UNCHANGED <<primary, mixins, opIds, skipped, i>>
    /\ MixinFrame

\* lines 94-104, one entry of m.Responses
Responses ==
    /\ pc = "responses"
    /\ \E k \in todo : Ran(ResponsesEntry(Frame, i, k), k)

\* line 105: the next mixin
ResponsesDone ==
    /\ pc = "responses"
    /\ todo = {}
    /\ pc' = "for"
    /\ i' = i + 1
    /\ UNCHANGED <<primary, mixins, opIds, skipped, todo>>
    /\ MixinFrame

\* line 106: return skipped. Called from MixinFiles, execution goes on at its
\* line 132 (collisions is skipped); otherwise the call is over.
MixinReturn ==
    /\ pc = "return"
    /\ pc' = IF caller = "MixinFiles" THEN "FixEmptyResponseDescriptions" ELSE "done"
    /\ UNCHANGED <<primary, mixins, opIds, skipped, i, todo>>
    /\ MixinFrame

MixinNext ==
    \/ MixinCall
    \/ ForMixins
    \/ Definitions
    \/ DefinitionsDone
    \/ Paths
    \/ PathsDone
    \/ Parameters
    \/ ParametersDone
    \/ Responses
    \/ ResponsesDone
    \/ MixinReturn

\* ------------------------------------------------------------ input documents
\* Names that tell the documents apart: 0 is the primary, d > 0 is mixin d-1.
DocName(d) == IF d = 0 THEN <<"primary">> ELSE <<"mixin">> \o Decimal(d - 1)

NoRef == ""
Schema(d) == [Title |-> DocName(d)]
Parameter(d) == [Name |-> DocName(d)]
Response(desc, ref, d) == [Description |-> desc, Ref |-> ref, Schema |-> Schema(d)]
OpResponses(d) ==
    PtrTo([Default |-> PtrTo(Response("", NoRef, d)),
           StatusCodeResponses |-> MapOf(200 :> Response("ok", NoRef, d))])
Operation(id, d) == [ID |-> id, Summary |-> DocName(d), Responses |-> OpResponses(d)]
\* ops: a function from the methods present to their operationId
PathItem(ops, d) ==
    [m \in Methods |-> IF m \in DOMAIN ops THEN PtrTo(Operation(ops[m], d)) ELSE NilPtr]

\* A document of the shape sh, as document number d. sh.nil names the sections
\* the file does not have: the loader leaves their map nil, and Paths a nil
\* pointer when the shape says "Paths".
MkDoc(sh, d) ==
    [Definitions |-> IF "definitions" \in sh.nil THEN NilMap
                     ELSE MapOf([k \in sh.defs |-> Schema(d)]),
     Parameters  |-> IF "parameters" \in sh.nil THEN NilMap
                     ELSE MapOf([k \in sh.params |-> Parameter(d)]),
     Responses   |-> IF "responses" \in sh.nil THEN NilMap
                     ELSE MapOf([k \in DOMAIN sh.resps |->
                                    Response(sh.resps[k][1], sh.resps[k][2], d)]),
     Paths       |-> IF "Paths" \in sh.nil THEN NilPtr
                     ELSE PtrTo([Paths |-> IF "paths" \in sh.nil THEN NilMap
                                           ELSE MapOf([k \in DOMAIN sh.paths |->
                                                          PathItem(sh.paths[k], d)])])]

Shape(defs, params, resps, paths, nil) ==
    [defs |-> defs, params |-> params, resps |-> resps, paths |-> paths, nil |-> nil]

GetA == <<"getA">>
GetB == <<"getB">>
GetAMixin0 == <<"getA", "Mixin", "0">>
Empty == <<>>

PrimaryShapes ==
    { Shape({"D1"}, {"P1"}, "R1" :> <<"", NoRef>>, "/a" :> ("Get" :> GetA), {}),
      Shape({}, {}, EmptyFn, EmptyFn, {}),
      Shape({}, {}, EmptyFn, EmptyFn, {"definitions", "parameters", "responses", "paths"}),
      Shape({"D1"}, {}, EmptyFn, EmptyFn, {"Paths"}),
      Shape({"D2"}, {}, EmptyFn, "/a" :> ("Get" :> GetA @@ "Post" :> GetAMixin0), {}),
      Shape({"D1", "D2"}, {}, "R1" :> <<"kept", NoRef>>, "/a" :> ("Get" :> Empty),
            {"parameters"}),
      Shape({}, {"P1"}, EmptyFn, "/a" :> ("Options" :> GetA), {"definitions", "responses"}),
      Shape({}, {}, EmptyFn, "/a" :> ("Get" :> GetA) @@ "/b" :> ("Put" :> GetB), {}) }

MixinShapes ==
    { Shape({"D1"}, {}, EmptyFn, "/a" :> ("Get" :> GetB) @@ "/b" :> ("Get" :> GetA), {}),
      Shape({"D1", "D2"}, {"P1"}, EmptyFn,
            "/b" :> ("Get" :> GetA) @@ "/c" :> ("Get" :> GetAMixin0), {}),
      Shape({"D2"}, {}, "R1" :> <<"", NoRef>>,
            "/b" :> ("Get" :> Empty) @@ "/c" :> ("Post" :> Empty @@ "Patch" :> GetB), {}),
      Shape({}, {"P1"}, "R1" :> <<"", "#/responses/X">>,
            "/b" :> ("Options" :> GetA @@ "Head" :> GetB), {}),
      Shape({}, {}, EmptyFn, EmptyFn, {}),
      Shape({}, {}, EmptyFn, EmptyFn, {"definitions", "parameters", "responses", "paths"}),
      Shape({"D1"}, {}, EmptyFn, EmptyFn, {"Paths"}),
      Shape({"D1"}, {"P1"}, "R1" :> <<"ok", NoRef>>,
            "/a" :> ("Patch" :> GetB)
                @@ "/c" :> ("Put" :> GetA @@ "Delete" :> Empty @@ "Head" :> GetAMixin0),
            {}) }

\* Every document whose paths are empty, with definitions among D1, D2 and
\* with or without the parameter P1 and the response R1.
CollectionShapes ==
    { Shape(defs, pr, [k \in {"R1" : x \in pr} |-> <<"", NoRef>>], EmptyFn, {})
        : defs \in SUBSET {"D1", "D2"}, pr \in {{}, {"P1"}} }

\* Every document of paths among /a, /b, each with one GET operation whose
\* id is getA or empty, and nothing else.
PathShapes ==
    { Shape({}, {}, EmptyFn, [k \in ks |-> "Get" :> ids[k]], {})
        : ks \in SUBSET {"/a", "/b"}, ids \in [{"/a", "/b"} -> {GetA, Empty}] }

\* The families of arguments: <<shapes of the primary, shapes of a mixin>>.
Families ==
    { <<PrimaryShapes, MixinShapes>>,
      <<CollectionShapes, CollectionShapes>>,
      <<PathShapes, PathShapes>> }

\* the argument lists of n mixins of the given shapes
MixinLists(shapes, n) == { [j \in 1..n |-> MkDoc(sh[j], j)] : sh \in [1..n -> shapes] }

\* ------------------------------------------------------------ Mixin called directly
Init ==
    /\ pc = "Mixin"
    /\ caller = "none"
    /\ \E fam \in Families, n \in 0..MaxMixins :
          /\ primary \in { MkDoc(sh, 0) : sh \in fam[1] }
          /\ mixins \in MixinLists(fam[2], n)
    /\ primaryIn = primary
    /\ mixinsIn = mixins
    /\ opIds = {}
    /\ skipped = 0
    /\ i = 0
    /\ todo = {}
    /\ once = <<>>
    /\ files = <<>>
    /\ ret = <<>>
    /\ sink = <<>>
    /\ expected = 0
    /\ exit = -1

Next == MixinNext

Spec == Init /\ [][Next]_vars

\* ------------------------------------------------------------ reading documents
Collections == {"Definitions", "Paths", "Parameters", "Responses"}

\* the map of a collection (the nil map for a nil Paths pointer)
Coll(doc, c) ==
    IF c = "Paths"
    THEN (IF doc.Paths = NilPtr THEN NilMap ELSE doc.Paths[1].Paths)
    ELSE doc[c]

Size(doc, c) == Cardinality(Keys(Coll(doc, c)))

\* the documents handed to Mixin, in priority order: primary, M0, M1, ...
DocsIn == <<primaryIn>> \o mixinsIn

\* the first document, in priority order, that holds key k of collection c
FirstWith(c, k) ==
    CHOOSE j \in 1..Len(DocsIn) :
        /\ Exists(Coll(DocsIn[j], c), k)
        /\ \A h \in 1..(j - 1) : ~Exists(Coll(DocsIn[h], c), k)

\* a path item with its operation ids blanked
EraseIds(item) ==
    [m \in Methods |-> IF item[m] = NilPtr THEN NilPtr
                       ELSE PtrTo([item[m][1] EXCEPT !.ID = Empty])]

\* the operations of a document's paths: <<path key, method>>
OpsOf(doc, methods) ==
    { km \in Keys(Coll(doc, "Paths")) \X methods :
          Lookup(Coll(doc, "Paths"), km[1])[km[2]] # NilPtr }
IdOf(doc, km) == Lookup(Coll(doc, "Paths"), km[1])[km[2]][1].ID

\* the methods pathItemOps collects
Scanned == Methods \ {"Options"}

\* The entry stored under k is the entry of document j: the very same for the
\* three plain collections and for the primary's own paths, the same up to
\* operation ids for a path item that came from a mixin.
SameEntry(c, k, j) ==
    LET got == Lookup(Coll(primary, c), k)
        src == Lookup(Coll(DocsIn[j], c), k)
    IN IF c = "Paths" /\ j > 1 THEN EraseIds(got) = EraseIds(src) ELSE got = src

RECURSIVE SumSizes(_, _)
SumSizes(docs, c) ==
    IF docs = <<>> THEN 0 ELSE Size(Head(docs), c) + SumSizes(Tail(docs), c)

Disjoint(c) ==
    \A j, h \in 1..Len(DocsIn) :
        j # h => Keys(Coll(DocsIn[j], c)) \cap Keys(Coll(DocsIn[h], c)) = {}

\* ------------------------------------------------------------ claims on Mixin

RECURSIVE SumAll(_)
SumAll(cs) ==
    IF cs = {} THEN 0
    ELSE LET c == CHOOSE x \in cs : TRUE
         IN SumSizes(DocsIn, c) - Size(primary, c) + SumAll(cs \ {c})

\* C2: the value Mixin returns is the number of mixin entries skipped: summed
\* over the four collections, the entries of the primary and of all mixins
\* before the call, less the entries of the primary after it. Renaming an
\* operation id adds nothing to it.
C2_SkippedCount ==
    pc = "done" => skipped = SumAll(Collections)

\* C2's case: a run that skipped entries and renamed an operation.
C2_Witness ==
    /\ pc = "done"
    /\ skipped >= 3
    /\ mixins # mixinsIn

\* no two operations of the document, under any method, share a non-empty id
UniqueWithin(doc) ==
    \A a, b \in OpsOf(doc, Methods) :
        (a # b /\ IdOf(doc, a) = IdOf(doc, b)) => IdOf(doc, a) = Empty

\* the operations of the merged primary that came from a mixin
Inserted(methods) == { km \in OpsOf(primary, methods) : ~Exists(Coll(primaryIn, "Paths"), km[1]) }
\* the zero-based index of the mixin an inserted operation came from
MixinOf(km) == FirstWith("Paths", km[1]) - 2
\* the id the operation had in its mixin when Mixin was called
OrigId(km) == IdOf(mixinsIn[MixinOf(km) + 1], km)
Renamed(km) == km \in Inserted(Methods) /\ IdOf(primary, km) # OrigId(km)

C4_MixinsUntouched ==
    pc = "done" => mixins = mixinsIn

\* C5: when Mixin returns, every operation that came from a mixin with an
\* empty id still has an empty id.
C5_EmptyIdsKept ==
    pc = "done" =>
        \A km \in Inserted(Methods) : OrigId(km) = Empty => IdOf(primary, km) = Empty

\* C6's scenario: the primary has the single path /a, whose only operation has
\* the id getA; the only mixin has the paths /a and /b, and an operation of /b
\* has the id getA. Both operations are under a method other than OPTIONS.
C6_Scenario ==
    /\ Len(mixinsIn) = 1
    /\ Keys(Coll(primaryIn, "Paths")) = {"/a"}
    /\ Cardinality(OpsOf(primaryIn, Methods)) = 1
    /\ \A o \in OpsOf(primaryIn, Methods) : o[2] \in Scanned /\ IdOf(primaryIn, o) = GetA
    /\ Keys(Coll(mixinsIn[1], "Paths")) = {"/a", "/b"}
    /\ \E o \in OpsOf(mixinsIn[1], Scanned) : o[1] = "/b" /\ IdOf(mixinsIn[1], o) = GetA

AllIds(doc) == { IdOf(doc, km) : km \in OpsOf(doc, Methods) }

\* what C6 and its amendment agree on: one path collision, the paths /a and
\* /b, and /a still the primary's own entry
C6_Common ==
    /\ SumSizes(DocsIn, "Paths") - Size(primary, "Paths") = 1
    /\ Keys(Coll(primary, "Paths")) = {"/a", "/b"}
    /\ Lookup(Coll(primary, "Paths"), "/a") = Lookup(Coll(primaryIn, "Paths"), "/a")

\* C6 as claimed: in the scenario Mixin returns with one path collision, the
\* paths /a and /b, the mixin's /a dropped, the operation of /b still named
\* getA, and getAMixin0 nowhere in the primary.
C6_ScenarioAsClaimed ==
    (pc = "done" /\ C6_Scenario) =>
        /\ C6_Common
        /\ \A km \in Inserted(Methods) : IdOf(primary, km) = OrigId(km)
        /\ GetAMixin0 \notin AllIds(primary)

\* C6 as amended: in the scenario Mixin returns with one path collision, the
\* paths /a and /b, the mixin's /a dropped and the primary's getA kept, and
\* the operation of /b that was named getA is named getAMixin0.
C6_ScenarioRenames ==
    (pc = "done" /\ C6_Scenario) =>
        /\ C6_Common
        /\ \A km \in Inserted(Scanned) :
               OrigId(km) = GetA => IdOf(primary, km) = GetAMixin0
        /\ GetAMixin0 \in AllIds(primary)
        /\ GetA \in AllIds(primary)

\* C6's case: Mixin has returned in the scenario.
C6_Witness ==
    pc = "done" /\ C6_Scenario /\ primary # primaryIn

\* ------------------------------------------------------------ traversal order
\* One loop of Mixin run to its end on the keys left, visiting them in one fixed
\* order (the order CHOOSE picks): a run the map's iteration order allows.
RECURSIVE RangeInOrder(_, _, _, _)
RangeInOrder(c, f, n, keys) ==
    IF keys = {} \/ f.panic THEN f
    ELSE LET k == CHOOSE x \in keys : TRUE
             g == CASE c = "Definitions" -> DefinitionsEntry(f, n, k)
                    [] c = "Paths" -> PathsEntry(f, n, k)
                    [] c = "Parameters" -> ParametersEntry(f, n, k)
                    [] c = "Responses" -> ResponsesEntry(f, n, k)
         IN RangeInOrder(c, g, n, keys \ {k})

\* lines 52-104 for mixin n, each of the four loops in that fixed order
MergeInOrder(f, n) ==
    LET m == f.mixins[n + 1]
        f1 == RangeInOrder("Definitions", f, n, Keys(m.Definitions))
        f2 == RangeInOrder("Paths", f1, n, Keys(Coll(m, "Paths")))
        f3 == RangeInOrder("Parameters", f2, n, Keys(m.Parameters))
    IN RangeInOrder("Responses", f3, n, Keys(m.Responses))

RECURSIVE MixinFrom(_, _)
MixinFrom(f, n) ==
    IF n >= Len(f.mixins) THEN f ELSE MixinFrom(MergeInOrder(f, n), n + 1)

\* Mixin(p, ms...) with every map traversed in that fixed order
MixinInOrder(p, ms) ==
    MixinFrom([primary |-> p, mixins |-> ms, opIds |-> getOpIds(p),
               skipped |-> 0, panic |-> FALSE], 0)

\* C10: whatever order the maps of the mixins were traversed in, Mixin returns
\* the count and leaves the primary that the traversal in one fixed order
\* gives: the outcome is a function of the arguments alone.
C10_OrderIndependent ==
    pc = "done" =>
        LET r == MixinInOrder(primaryIn, mixinsIn)
        IN skipped = r.skipped /\ primary = r.primary

\* ------------------------------------------------------------ FixEmptyResponseDescriptions
\* a variant of FixEmptyDesc that does not look for a $ref
FixEmptyDescAnyRef(rs) ==
    IF rs = NilPtr \/ rs[1].Description # ""
    THEN rs
    ELSE PtrTo([rs[1] EXCEPT !.Description = "(empty)"])

\* lines 194-199, on a *spec.Response: what it points to afterwards.
\* rs.Ref.Ref.GetURL() is nil exactly when the response has no $ref.
FixEmptyDesc(rs) ==
    IF rs = NilPtr \/ rs[1].Description # "" \/ rs[1].Ref # NoRef
    THEN rs
    ELSE PtrTo([rs[1] EXCEPT !.Description = "(empty)"])

\* lines 185-188 and 175-178: every value of a map[..]Response is copied,
\* repaired through the pointer to the copy and stored back under its key
FixEmptyMap(m) ==
    IF m = NilMap THEN NilMap
    ELSE MapOf([k \in DOMAIN m[1] |-> FixEmptyDesc(PtrTo(m[1][k]))[1]])

\* lines 183-189, on a *spec.Responses that is not nil
FixEmptyDescs(rs) ==
    PtrTo([rs[1] EXCEPT !.Default = FixEmptyDesc(@),
                        !.StatusCodeResponses = FixEmptyMap(@)])

\* lines 153-173: the body of the paths loop, method after method in the order
\* of the source. An operation whose Responses is nil stops it: FixEmptyDescs
\* dereferences rs. The operations are shared with the document.
FixOrder == <<"Get", "Put", "Post", "Delete", "Options", "Head", "Patch">>

RECURSIVE FixPathItem(_, _)
FixPathItem(v, methods) ==
    IF methods = <<>> THEN [item |-> v, panic |-> FALSE]
    ELSE LET m == Head(methods)
         IN IF v[m] = NilPtr THEN FixPathItem(v, Tail(methods))
            ELSE IF v[m][1].Responses = NilPtr THEN [item |-> v, panic |-> TRUE]
            ELSE FixPathItem(
                     [v EXCEPT ![m] = PtrTo([@[1] EXCEPT !.Responses = FixEmptyDescs(@)])],
                     Tail(methods))

\* What the repair leaves alone in every step.
FixFrame ==
    UNCHANGED <<caller, mixins, opIds, skipped, i, primaryIn, mixinsIn, files, ret, sink,
                expected, exit>>

\* line 152 starts ranging s.Paths.Paths: a nil s.Paths is a nil pointer dereference
FixCall ==
    /\ pc = "FixEmptyResponseDescriptions"
    /\ IF primary.Paths = NilPtr
       THEN pc' = "panic" /\ UNCHANGED todo
       ELSE pc' = "fixPaths" /\ todo' = Keys(primary.Paths[1].Paths)
    /\ UNCHANGED <<primary, once>>
    /\ FixFrame

\* lines 152-174, one entry of s.Paths.Paths
FixPaths ==
    /\ pc = "fixPaths"
    /\ \E k \in todo :
          LET r == FixPathItem(Lookup(primary.Paths[1].Paths, k), FixOrder)
          IN /\ primary' = [primary EXCEPT !.Paths[1].Paths = Store(@, k, r.item)]
             /\ pc' = IF r.panic THEN "panic" ELSE pc
             /\ todo' = todo \ {k}
    /\ UNCHANGED once
    /\ FixFrame

\* line 175 starts ranging s.Responses
FixPathsDone ==
    /\ pc = "fixPaths"
    /\ todo = {}
    /\ pc' = "fixResponses"
    /\ todo' = Keys(primary.Responses)
    /\ UNCHANGED <<primary, once>>
    /\ FixFrame

\* lines 175-178, one entry of s.Responses
FixResponses ==
    /\ pc = "fixResponses"
    /\ \E k \in todo :
          /\ primary' = [primary EXCEPT !.Responses =
                            Store(@, k, FixEmptyDesc(PtrTo(Lookup(@, k)))[1])]
          /\ todo' = todo \ {k}
    /\ UNCHANGED <<pc, once>>
    /\ FixFrame

\* line 179: the function returns. MixinFiles goes on at its line 134; the
\* caller "twice" keeps the document and calls the function a second time.
FixReturn ==
    /\ pc = "fixResponses"
    /\ todo = {}
    /\ IF caller = "MixinFiles" THEN pc' = "marshal" /\ UNCHANGED once
       ELSE IF once = <<>> THEN pc' = "FixEmptyResponseDescriptions" /\ once' = <<primary>>
       ELSE pc' = "done" /\ UNCHANGED once
    /\ UNCHANGED <<primary, todo>>
    /\ FixFrame

FixNext ==
    \/ FixCall
    \/ FixPaths
    \/ FixPathsDone
    \/ FixResponses
    \/ FixReturn

\* The responses a repair is tried on.
SomeResponses ==
    { Response(d, r, 0) : d \in {"", "ok"}, r \in {NoRef, "#/responses/X"} }
StatusCodeMaps ==
    {NilMap} \cup { MapOf(f) : f \in UNION { [cs -> SomeResponses] : cs \in SUBSET {200, 404} } }
SomeResponsesObjects ==
    {NilPtr} \cup
    { PtrTo([Default |-> dflt, StatusCodeResponses |-> codes])
        : dflt \in {NilPtr} \cup { PtrTo(r) : r \in SomeResponses }, codes \in StatusCodeMaps }
TopResponses == {NilMap} \cup { MapOf("R1" :> r) : r \in SomeResponses }

FixDoc(paths, top) ==
    [Definitions |-> NilMap, Parameters |-> NilMap, Responses |-> top, Paths |-> paths]

\* one path with one operation, under any method, with any of those responses
OneOperationDocs ==
    { FixDoc(PtrTo([Paths |-> MapOf("/a" :>
                 [m \in Methods |-> IF m = meth
                                    THEN PtrTo([ID |-> GetA, Summary |-> DocName(0),
                                                Responses |-> rs])
                                    ELSE NilPtr])]), top)
        : meth \in Methods, rs \in SomeResponsesObjects, top \in TopResponses }

\* paths among /a, /b, every method present, a default response only
DefaultOnly(r) == PtrTo([Default |-> PtrTo(r), StatusCodeResponses |-> NilMap])
AllMethodsDocs ==
    { FixDoc(PtrTo([Paths |-> MapOf([k \in ks |->
                 [m \in Methods |-> PtrTo([ID |-> Empty, Summary |-> DocName(0),
                                           Responses |-> DefaultOnly(rs[k])])]])]), top)
        : ks \in SUBSET {"/a", "/b"}, rs \in [{"/a", "/b"} -> SomeResponses],
          top \in TopResponses }

FixDocs == OneOperationDocs \cup AllMethodsDocs \cup {FixDoc(NilPtr, NilMap)}

\* FixEmptyResponseDescriptions called on a document, and then once more
InitFix ==
    /\ pc = "FixEmptyResponseDescriptions"
    /\ caller = "twice"
    /\ primary \in FixDocs
    /\ primaryIn = primary
    /\ mixins = <<>>
    /\ mixinsIn = <<>>
    /\ opIds = {}
    /\ skipped = 0
    /\ i = 0
    /\ todo = {}
    /\ once = <<>>
    /\ files = <<>>
    /\ ret = <<>>
    /\ sink = <<>>
    /\ expected = 0
    /\ exit = -1

SpecFix == InitFix /\ [][FixNext]_vars

\* where a document holds a response: at the top level under a name, as the
\* default of an operation, or under a status code of an operation
Places(doc) ==
    { <<"top", k>> : k \in Keys(doc.Responses) }
    \cup { <<"default", km>> : km \in { o \in OpsOf(doc, Methods) :
               /\ Lookup(Coll(doc, "Paths"), o[1])[o[2]][1].Responses # NilPtr
               /\ Lookup(Coll(doc, "Paths"), o[1])[o[2]][1].Responses[1].Default # NilPtr } }
    \cup UNION { { <<"code", km, code>> :
                     code \in Keys(Lookup(Coll(doc, "Paths"), km[1])[km[2]][1]
                                       .Responses[1].StatusCodeResponses) }
                 : km \in { o \in OpsOf(doc, Methods) :
                     Lookup(Coll(doc, "Paths"), o[1])[o[2]][1].Responses # NilPtr } }

At(doc, pl) ==
    IF pl[1] = "top" THEN Lookup(doc.Responses, pl[2])
    ELSE LET rs == Lookup(Coll(doc, "Paths"), pl[2][1])[pl[2][2]][1].Responses[1]
         IN IF pl[1] = "default" THEN rs.Default[1]
            ELSE Lookup(rs.StatusCodeResponses, pl[3])

\* C7: after one run every response is where it was; one without a $ref has
\* its description if that was not empty and "(empty)" if it was, one with a
\* $ref is as it was; and the second run leaves the document of the first.
C7_RepairedOnce ==
    pc = "done" =>
        /\ Places(once[1]) = Places(primaryIn)
        /\ \A pl \in Places(primaryIn) :
               LET was == At(primaryIn, pl)
                   is == At(once[1], pl)
               IN /\ was.Ref # NoRef => is = was
                  /\ (was.Ref = NoRef /\ was.Description # "") => is = was
                  /\ (was.Ref = NoRef /\ was.Description = "") =>
                         is = [was EXCEPT !.Description = "(empty)"]
        /\ primary = once[1]

\* C7's case: both runs are over on a document with an empty description to
\* repair under OPTIONS, under a status code and at the top level, and with a
\* $ref whose description is empty.
C7_Witness ==
    /\ pc = "done"
    /\ once[1] # primaryIn
    /\ \E pl \in Places(primaryIn) :
           /\ pl[1] = "default" /\ pl[2][2] = "Options"
           /\ At(primaryIn, pl).Description = "" /\ At(primaryIn, pl).Ref = NoRef
    /\ \E pl \in Places(primaryIn) :
           /\ pl[1] = "top"
           /\ At(primaryIn, pl).Description = "" /\ At(primaryIn, pl).Ref # NoRef
    /\ \E pl \in Places(primaryIn) :
           /\ pl[1] = "code"
           /\ At(primaryIn, pl).Description = "" /\ At(primaryIn, pl).Ref = NoRef

\* ------------------------------------------------------------ MixinFiles
\* files[1] is what loads.Spec yields for primaryFile, files[j + 1] for
\* mixinFiles[j - 1]: a document, or an error when ok is FALSE. sink records the
\* outcome of json.MarshalIndent and of w.Write, and the document whose
\* encoding the writer took.
NoErr == [kind |-> "nil", file |-> 0]
LoadErr(j) == [kind |-> "load", file |-> j]
MarshalErr == [kind |-> "marshal", file |-> 0]
WriteErr == [kind |-> "write", file |-> 0]
\* the value of ret before MixinFiles has returned
NotCalled == [kind |-> "not called", file |-> 0]

FilesFrame == UNCHANGED <<caller, opIds, skipped, todo, once, files, expected, exit>>

\* lines 116-120: the primary is loaded, or its error returned
LoadPrimary ==
    /\ pc = "MixinFiles"
    /\ IF files[1].ok
       THEN /\ primary' = files[1].doc
            /\ primaryIn' = files[1].doc
            /\ pc' = "loadMixins"
            /\ UNCHANGED ret
       ELSE /\ ret' = [collisions |-> 0, err |-> LoadErr(1)]
            /\ pc' = "returned"
            /\ UNCHANGED <<primary, primaryIn>>
    /\ UNCHANGED <<mixins, mixinsIn, i, sink>>
    /\ FilesFrame

\* lines 122-129: the next mixin is loaded and appended, or its error returned;
\* after the last one Mixin is called (line 131)
LoadMixin ==
    /\ pc = "loadMixins"
    /\ IF i + 1 >= Len(files)
       THEN /\ pc' = "Mixin"
            /\ mixinsIn' = mixins
            /\ UNCHANGED <<mixins, i, ret>>
       ELSE IF files[i + 2].ok
       THEN /\ mixins' = Append(mixins, files[i + 2].doc)
            /\ i' = i + 1
            /\ UNCHANGED <<pc, mixinsIn, ret>>
       ELSE /\ ret' = [collisions |-> 0, err |-> LoadErr(i + 2)]
            /\ pc' = "returned"
            /\ UNCHANGED <<mixins, mixinsIn, i>>
    /\ UNCHANGED <<primary, primaryIn, sink>>
    /\ FilesFrame

\* lines 134-137: json.MarshalIndent succeeds or fails
Marshal ==
    /\ pc = "marshal"
    /\ \E ok \in BOOLEAN :
          /\ sink' = [sink EXCEPT !.marshal = IF ok THEN "ok" ELSE "failed"]
          /\ IF ok THEN pc' = "write" /\ UNCHANGED ret
             ELSE pc' = "returned" /\ ret' = [collisions |-> 0, err |-> MarshalErr]
    /\ UNCHANGED <<primary, mixins, primaryIn, mixinsIn, i>>
    /\ FilesFrame

\* lines 139-141: w.Write(bs), whose results are dropped, then
\* return collisions, nil
Write ==
    /\ pc = "write"
    /\ \E ok \in BOOLEAN :
          sink' = [sink EXCEPT !.write = IF ok THEN "ok" ELSE "failed",
                               !.bytes = IF ok THEN <<primary>> ELSE <<>>]
    /\ ret' = [collisions |-> skipped, err |-> NoErr]
    /\ pc' = "returned"
    /\ UNCHANGED <<primary, mixins, primaryIn, mixinsIn, i>>
    /\ FilesFrame

FilesNext ==
    \/ LoadPrimary
    \/ LoadMixin
    \/ MixinNext
    \/ FixNext
    \/ Marshal
    \/ Write

\* the files MixinFiles is tried on
FilePrimaryShapes ==
    { Shape({"D1"}, {"P1"}, "R1" :> <<"", NoRef>>, "/a" :> ("Get" :> GetA), {}),
      Shape({}, {}, EmptyFn, "/a" :> ("Get" :> Empty), {"definitions"}) }
FileMixinShapes ==
    { Shape({"D1"}, {}, EmptyFn, "/a" :> ("Get" :> GetB) @@ "/b" :> ("Get" :> GetA), {}),
      Shape({}, {"P1"}, "R1" :> <<"", "#/responses/X">>,
            "/b" :> ("Options" :> GetA @@ "Head" :> GetB), {}) }

InitFiles ==
    /\ pc = "MixinFiles"
    /\ caller = "MixinFiles"
    /\ \E n \in 0..MaxMixins :
          \E sh \in [1..(n + 1) -> FilePrimaryShapes \cup FileMixinShapes],
             oks \in [1..(n + 1) -> BOOLEAN] :
              /\ sh[1] \in FilePrimaryShapes
              /\ \A j \in 2..(n + 1) : sh[j] \in FileMixinShapes
              /\ files = [j \in 1..(n + 1) |-> [ok |-> oks[j], doc |-> MkDoc(sh[j], j - 1)]]
    /\ primary = <<>>
    /\ primaryIn = <<>>
    /\ mixins = <<>>
    /\ mixinsIn = <<>>
    /\ opIds = {}
    /\ skipped = 0
    /\ i = 0
    /\ todo = {}
    /\ once = <<>>
    /\ ret = [collisions |-> 0, err |-> NotCalled]
    /\ sink = [marshal |-> "pending", write |-> "pending", bytes |-> <<>>]
    /\ expected = 0
    /\ exit = -1

SpecFiles == InitFiles /\ [][FilesNext]_vars

\* the first file that does not load, 0 if all do
FirstBad ==
    IF \A j \in 1..Len(files) : files[j].ok THEN 0
    ELSE CHOOSE j \in 1..Len(files) :
             ~files[j].ok /\ \A h \in 1..(j - 1) : files[h].ok

\* C8: when MixinFiles returns, a file that did not load gives the error of
\* the first such file, with no merge begun and nothing written; a failed
\* serialization gives its error; a failed write gives its error; and the
\* error is nil, beside the collision count, only when every file loaded and
\* serialization and write both succeeded.
C8_EveryFailureReturned ==
    pc = "returned" =>
        /\ FirstBad # 0 =>
               /\ ret = [collisions |-> 0, err |-> LoadErr(FirstBad)]
               /\ opIds = {} /\ skipped = 0
               /\ sink = [marshal |-> "pending", write |-> "pending", bytes |-> <<>>]
        /\ sink.marshal = "failed" => ret.err = MarshalErr /\ sink.bytes = <<>>
        /\ sink.write = "failed" => ret.err = WriteErr
        /\ ret.err = NoErr =>
               /\ FirstBad = 0 /\ sink.marshal = "ok" /\ sink.write = "ok"
               /\ ret.collisions = skipped

\* ------------------------------------------------------------ main
\* the low eight bits of the exit code: what the calling shell finds in $?
ShellStatus(code) == code % 256

\* lines 48-60 of main.go: the argument of os.Exit, 0 when main returns
ExitCode(r, want) ==
    IF r.err # NoErr THEN 1
    ELSE IF r.collisions # want
    THEN (IF r.collisions # 0 THEN r.collisions ELSE 254)
    ELSE 0

\* the largest collision count and the largest -c value tried
MaxCollisions == 257
MaxExpected == 2

MainFrame ==
    UNCHANGED <<caller, primary, mixins, opIds, skipped, i, todo, primaryIn, mixinsIn,
                once, files, sink, expected>>

\* lines 36-44: a command line that does not parse, or names fewer than two
\* files, ends the program with status 1
ParseArgs ==
    /\ pc = "main"
    /\ \E parsed \in BOOLEAN, nargs \in 0..2 :
          IF parsed /\ nargs >= 2
          THEN pc' = "call" /\ UNCHANGED exit
          ELSE pc' = "exited" /\ exit' = ShellStatus(1)
    /\ UNCHANGED ret
    /\ MainFrame

\* line 46: MixinFiles returns an error, or a count
CallMixinFiles ==
    /\ pc = "call"
    /\ \/ ret' = [collisions |-> 0, err |-> LoadErr(1)]
       \/ ret' = [collisions |-> 0, err |-> MarshalErr]
       \/ \E c \in 0..MaxCollisions : ret' = [collisions |-> c, err |-> NoErr]
    /\ pc' = "compare"
    /\ UNCHANGED exit
    /\ MainFrame

\* lines 48-60
Exit ==
    /\ pc = "compare"
    /\ exit' = ShellStatus(ExitCode(ret, expected))
    /\ pc' = "exited"
    /\ UNCHANGED ret
    /\ MainFrame

MainNext ==
    \/ ParseArgs
    \/ CallMixinFiles
    \/ Exit

InitMain ==
    /\ pc = "main"
    /\ caller = "main"
    /\ expected \in 0..MaxExpected
    /\ primary = <<>>
    /\ primaryIn = <<>>
    /\ mixins = <<>>
    /\ mixinsIn = <<>>
    /\ opIds = {}
    /\ skipped = 0
    /\ i = 0
    /\ todo = {}
    /\ once = <<>>
    /\ files = <<>>
    /\ ret = [collisions |-> 0, err |-> NotCalled]
    /\ sink = <<>>
    /\ exit = -1

SpecMain == InitMain /\ [][MainNext]_vars

\* C9: when MixinFiles returned no error, the status the shell observes is
\* non-zero exactly when the collision count differs from the expected one,
\* and it is then the count if that is not zero and 254 if it is.
C9_ExitStatus ==
    (pc = "exited" /\ ret.err = NoErr) =>
        /\ exit # 0 <=> ret.collisions # expected
        /\ ret.collisions # expected =>
               exit = (IF ret.collisions # 0 THEN ret.collisions ELSE 254)

====
